---- MODULE Spec2Model ----
(***************************************************************************)
(* Website Summarizer (src/app.py): one Streamlit script.  Every user      *)
(* interaction re-runs the script top to bottom; the state that survives   *)
(* a run is st.session_state and the st.cache_data cache of                *)
(* load_url_content.  One action below is one complete script run.         *)
(*                                                                         *)
(* Strings whose content is never inspected by the script are modelled by  *)
(* their origin and length (a summary, a page, a prompt); the access key   *)
(* is a sequence of characters because the script strips it; a URL is the  *)
(* pair (scheme, host) that validators.url inspects.                       *)
(***************************************************************************)
EXTENDS Integers, Sequences, FiniteSets, TLC

VARIABLES
    session,    \* st.session_state: [present: the keys it holds, val: their values,
                \* stamp (history): for every key, the number of the submit that stored it]
    form,       \* history: the widgets' values of the last script run if Summarize was
                \* pressed in it, NoForm otherwise
    cache,      \* st.cache_data of load_url_content: URL -> documents, or NotCached
    fetchLog,   \* history: URL -> outcomes of the network fetches made for it, in order
    msgs,       \* what the last script run displayed, in order
    debug,      \* the Developer Debug panel of the last script run
    calls,      \* history: the external calls of the last script run, in order
    submitNo,   \* history: number of submits so far
    chainImpl   \* which load_summarize_chain the imports resolved: "lib" or "local"

vars == <<session, form, cache, fetchLog, msgs, debug, calls, submitNo, chainImpl>>

-----------------------------------------------------------------------------
(* Bounds of the model *)

MaxSubmits == 2

-----------------------------------------------------------------------------
(* Program constants *)

TruncLen == 5000          \* the slice of the last resort
PreviewLen == 3000        \* d.page_content[:3000]
PlaceholderLen == 6       \* len("{text}")
SeparatorLen == 2         \* len("\n\n")
TemplateStaticLen == 103  \* len of the template of make_prompt without the digits of words

ModelName == "llama-3.1-8b-instant"
ChainTypes == {"stuff", "map_reduce", "refine"}
Keys == {"url", "docs", "prompt", "chain_type", "summary", "model", "dev_mode"}
ResultKeys == Keys \ {"dev_mode"}

-----------------------------------------------------------------------------
(* Inputs and outcomes of the external collaborators *)

\* What the user can type as the Groq API key.
ApiKeys == {<<>>, <<" ">>, <<" ", "g", " ">>}

\* What the user can type as the URL: empty, "example.com", "https://example.com",
\* "https://example.org".
URLs == {[scheme |-> "", host |-> ""], [scheme |-> "", host |-> "example.com"],
         [scheme |-> "https", host |-> "example.com"],
         [scheme |-> "https", host |-> "example.org"]}

\* The advanced settings the user can choose: the summary length slider
\* (50..1000, step 50), the "Show extracted text" checkbox and the chain type.
Settings == {[words |-> 300, show |-> FALSE, chain_type |-> "stuff"],
             [words |-> 1000, show |-> TRUE, chain_type |-> "refine"]}

\* A list of documents is the sequence of the lengths of their page_content.
NotCached == <<-1>>
NetFail == <<-2>>
DocLists == {<<>>, <<40>>, <<40, 6000>>}

\* Outcomes of loader.load(): a list of documents, or an exception
NetOutcomes == DocLists \cup {NetFail}

\* Outcomes of llm.invoke(...).content and of llm.predict(...): text of some length
\* (an empty answer included), or an exception
LlmOutcomes == {[res |-> "ok", len |-> 0], [res |-> "ok", len |-> 120],
                [res |-> "raise", len |-> 0]}

\* Outcomes of the run of a chain of the langchain library: text; a TypeError because
\* the call's argument form is rejected, before anything runs; a TypeError or another
\* exception raised inside the run, after inference began
LibRunOutcomes == {[res |-> "ok", len |-> 200], [res |-> "rejected", len |-> 0],
                   [res |-> "TypeError", len |-> 0], [res |-> "raise", len |-> 0]}

Steps == {"ok", "raise"}

NoCause == "none"
NoText == [src |-> "none", len |-> 0]

Min(a, b) == IF a < b THEN a ELSE b

RECURSIVE SumLen(_)
SumLen(s) == IF s = <<>> THEN 0 ELSE Head(s) + SumLen(Tail(s))

RECURSIVE SumPreview(_)
SumPreview(s) == IF s = <<>> THEN 0 ELSE Min(Head(s), PreviewLen) + SumPreview(Tail(s))

\* len("\n\n".join(parts)) for parts of total length total
JoinLen(n, total) == IF n = 0 THEN 0 ELSE total + SeparatorLen * (n - 1)

\* str.strip(): drop leading and trailing whitespace
RECURSIVE lstrip(_)
lstrip(s) == IF s # <<>> /\ Head(s) = " " THEN lstrip(Tail(s)) ELSE s

RECURSIVE rstrip(_)
rstrip(s) == IF s # <<>> /\ s[Len(s)] = " " THEN rstrip(SubSeq(s, 1, Len(s) - 1)) ELSE s

strip(s) == rstrip(lstrip(s))

\* validators.url: a scheme and a host are required
validators_url(u) == u.scheme \in {"http", "https"} /\ u.host # ""

\* The URLs load_url_content can be called with
ValidURLs == {u \in URLs : validators_url(u)}

Digits(n) == IF n < 10 THEN 1 ELSE IF n < 100 THEN 2 ELSE IF n < 1000 THEN 3 ELSE 4

\* make_prompt: the template holds the words figure and one "{text}" slot
make_prompt(words) == [words |-> words, template_len |-> TemplateStaticLen + Digits(words)]


-----------------------------------------------------------------------------
(* Values *)

NoExc == [type |-> "none", detail |-> NoCause]
Raised(e) == e.type # "none"

Call(op, res, n) == [op |-> op, res |-> res, n |-> n]
Msg(kind, msg, cause, text) ==
    [kind |-> kind, msg |-> msg, cause |-> cause, src |-> text.src, len |-> text.len]

NoDebug == [shown |-> FALSE, model |-> "", chain_type |-> "", documents |-> 0,
            summary_chars |-> 0, template_len |-> 0]

EmptyVal == [url |-> [scheme |-> "", host |-> ""], docs |-> <<>>,
             prompt |-> [words |-> 0, template_len |-> 0], chain_type |-> "",
             summary |-> NoText, model |-> "", dev_mode |-> FALSE]

-----------------------------------------------------------------------------
(* The pipeline *)

\* load_url_content without @st.cache_data: every load goes to the network
load_url_content_uncached(c, url, net) ==
    IF net = NetFail
    THEN [exc |-> [type |-> "Exception", detail |-> "fetch failed"], ret |-> <<>>,
          cache |-> c, fetched |-> "fail",
          calls |-> <<Call("load_url_content", "miss", 0), Call("loader.load", "raise", 0)>>]
    ELSE [exc |-> NoExc, ret |-> net, cache |-> [c EXCEPT ![url] = net],
          fetched |-> IF net = <<>> THEN "empty" ELSE "docs",
          calls |-> <<Call("load_url_content", "miss", 0),
                      Call("loader.load", "ok", Len(net))>>]

\* load_url_content under @st.cache_data: a URL whose load returned before is
\* served from the cache; otherwise loader.load() goes to the network, and what it
\* returns (an empty list too) is stored.  An exception stores nothing.
load_url_content(c, url, net) ==
    IF c[url] # NotCached
    THEN [exc |-> NoExc, ret |-> c[url], cache |-> c, fetched |-> "none",
          calls |-> <<Call("load_url_content", "hit", Len(c[url]))>>]
    ELSE IF net = NetFail
    THEN [exc |-> [type |-> "Exception", detail |-> "fetch failed"], ret |-> <<>>,
          cache |-> c, fetched |-> "fail",
          calls |-> <<Call("load_url_content", "miss", 0), Call("loader.load", "raise", 0)>>]
    ELSE [exc |-> NoExc, ret |-> net, cache |-> [c EXCEPT ![url] = net],
          fetched |-> IF net = <<>> THEN "empty" ELSE "docs",
          calls |-> <<Call("load_url_content", "miss", 0),
                      Call("loader.load", "ok", Len(net))>>]

\* len(final_prompt): the template with "{text}" replaced by the joined documents
final_prompt_len(docs, prompt) ==
    prompt.template_len - PlaceholderLen + JoinLen(Len(docs), SumLen(docs))

\* the last resort without the slice (`return final_prompt`)
untruncated_prompt(docs, prompt) ==
    [src |-> "prompt", len |-> final_prompt_len(docs, prompt)]

\* final_prompt[:5000]
truncated_prompt(docs, prompt) ==
    [src |-> "prompt", len |-> Min(final_prompt_len(docs, prompt), TruncLen)]

\* SimpleChain.run that goes on to predict although invoke answered (the answer of
\* invoke kept only if predict raises)
SimpleChain_run_no_stop(docs, prompt, inv, pred) ==
    LET n == final_prompt_len(docs, prompt)
        c1 == <<Call("invoke", inv.res, n)>>
        c2 == <<Call("predict", pred.res, n)>>
    IN  IF pred.res = "ok"
        THEN [res |-> "ok", exc |-> NoExc, ret |-> [src |-> "llm", len |-> pred.len],
              calls |-> c1 \o c2]
        ELSE IF inv.res = "ok"
        THEN [res |-> "ok", exc |-> NoExc, ret |-> [src |-> "llm", len |-> inv.len],
              calls |-> c1 \o c2]
        ELSE [res |-> "ok", exc |-> NoExc,
              ret |-> [src |-> "prompt", len |-> Min(n, TruncLen)], calls |-> c1 \o c2]

\* SimpleChain.run: invoke, else predict, else the truncated prompt
SimpleChain_run(docs, prompt, inv, pred) ==
    LET n == final_prompt_len(docs, prompt)
        c1 == <<Call("invoke", inv.res, n)>>
        c2 == <<Call("predict", pred.res, n)>>
    IN  IF inv.res = "ok"
        THEN [res |-> "ok", exc |-> NoExc, ret |-> [src |-> "llm", len |-> inv.len],
              calls |-> c1]
        ELSE IF pred.res = "ok"
        THEN [res |-> "ok", exc |-> NoExc, ret |-> [src |-> "llm", len |-> pred.len],
              calls |-> c1 \o c2]
        ELSE [res |-> "ok", exc |-> NoExc, ret |-> truncated_prompt(docs, prompt),
              calls |-> c1 \o c2]

\* run of a chain the langchain library built: opaque, any of LibRunOutcomes
LibChain_run(out) ==
    CASE out.res = "ok" ->
           [res |-> "ok", exc |-> NoExc, ret |-> [src |-> "lib", len |-> out.len],
            calls |-> <<Call("lib_inference", "ok", 0)>>]
      [] out.res = "rejected" ->
           [res |-> "rejected", exc |-> [type |-> "TypeError", detail |-> "bad argument form"],
            ret |-> NoText, calls |-> <<>>]
      [] out.res = "TypeError" ->
           [res |-> "TypeError", exc |-> [type |-> "TypeError", detail |-> "type error in run"],
            ret |-> NoText, calls |-> <<Call("lib_inference", "raise", 0)>>]
      [] OTHER ->
           [res |-> "raise", exc |-> [type |-> "Exception", detail |-> "inference failed"],
            ret |-> NoText, calls |-> <<Call("lib_inference", "raise", 0)>>]

chain_run(impl, docs, prompt, inv, pred, out) ==
    IF impl = "local" THEN SimpleChain_run(docs, prompt, inv, pred) ELSE LibChain_run(out)

\* try: summary = chain.run(input_documents=docs)
\* except TypeError: summary = chain.run(docs)
run_chain(impl, docs, prompt, env) ==
    LET first == chain_run(impl, docs, prompt, env.inv, env.pred, env.runkw)
        second == chain_run(impl, docs, prompt, env.inv, env.pred, env.runpos)
    IN  IF first.exc.type = "TypeError"
        THEN [exc |-> second.exc, ret |-> second.ret,
              calls |-> <<Call("run_kw", first.res, Len(docs))>> \o first.calls
                        \o <<Call("run_pos", second.res, Len(docs))>> \o second.calls]
        ELSE [exc |-> first.exc, ret |-> first.ret,
              calls |-> <<Call("run_kw", first.res, Len(docs))>> \o first.calls]

\* st.session_state["dev_mode"] = dev_mode
set_dev_mode(s, dev) ==
    [s EXCEPT !.present = @ \cup {"dev_mode"}, !.val.dev_mode = dev]

\* st.session_state.update({...}) without the "prompt" entry
session_update_without_prompt(s, no, url, docs, prompt, chain_type, summary) ==
    [present |-> s.present \cup (ResultKeys \ {"prompt"}),
     val |-> [s.val EXCEPT !.url = url, !.docs = docs, !.chain_type = chain_type,
                           !.summary = summary, !.model = ModelName],
     stamp |-> [k \in Keys |-> IF k \in ResultKeys \ {"prompt"} THEN no ELSE s.stamp[k]]]

\* st.session_state.update({...}) in submit number no
session_update(s, no, url, docs, prompt, chain_type, summary) ==
    [present |-> s.present \cup ResultKeys,
     val |-> [s.val EXCEPT !.url = url, !.docs = docs, !.prompt = prompt,
                           !.chain_type = chain_type, !.summary = summary,
                           !.model = ModelName],
     stamp |-> [k \in Keys |-> IF k \in ResultKeys THEN no ELSE s.stamp[k]]]

\* st.session_state.clear()
session_clear(s) == [present |-> {}, val |-> EmptyVal, stamp |-> [k \in Keys |-> 0]]

\* except Exception as e: st.error(f"Error: {e}"); if dev_mode: st.exception(...)
except_handler(e, dev) ==
    <<Msg("error", "Error: {e}", e.detail, NoText)>>
    \o (IF dev THEN <<Msg("exception", "traceback", e.detail, NoText)>> ELSE <<>>)

\* the text_area of the extracted content, when asked for
preview(show, docs) ==
    IF show
    THEN <<Msg("text_area", "Extracted Content (preview)", NoCause,
               [src |-> "docs", len |-> JoinLen(Len(docs), SumPreview(docs))])>>
    ELSE <<>>

\* The Developer Debug panel
debug_panel(s, dev) ==
    IF dev /\ "summary" \in s.present
    THEN [shown |-> TRUE, model |-> s.val.model, chain_type |-> s.val.chain_type,
          documents |-> Len(s.val.docs), summary_chars |-> s.val.summary.len,
          template_len |-> s.val.prompt.template_len]
    ELSE NoDebug

Out(s, c, fetched, m, k) ==
    [session |-> s, cache |-> c, fetched |-> fetched, msgs |-> m, calls |-> k]

\* Lines 165-184: the summary is shown and stored, then the download is prepared.
show_and_store(s, ld, r, k, in, env) ==
    LET s1 == session_update(s, in.no, in.url, ld.ret, make_prompt(in.words),
                             in.chain_type, r.ret)
        shown == preview(in.show, ld.ret)
                 \o <<Msg("success", "Summary generated", NoCause, NoText),
                      Msg("write", "summary", NoCause, r.ret)>>
    IN  IF env.dl = "raise"
        THEN Out(s1, ld.cache, ld.fetched,
                 shown \o except_handler([type |-> "Exception", detail |-> "download failed"],
                                         in.dev),
                 k \o <<Call("download_button", "raise", r.ret.len)>>)
        ELSE Out(s1, ld.cache, ld.fetched,
                 shown \o <<Msg("download_button", "summary.txt", NoCause, r.ret)>>,
                 k \o <<Call("download_button", "ok", r.ret.len)>>)

\* summarize with the session updated before the run is known to have succeeded
summarize_store_first(s, ld, r, k, in, env) ==
    IF Raised(r.exc)
    THEN Out(session_update(s, in.no, in.url, ld.ret, make_prompt(in.words), in.chain_type,
                            r.ret),
             ld.cache, ld.fetched,
             preview(in.show, ld.ret) \o except_handler(r.exc, in.dev), k \o r.calls)
    ELSE show_and_store(s, ld, r, k \o r.calls, in, env)

\* Lines 154-163: the chain is run; an exception goes to the handler.
summarize(s, ld, r, k, in, env) ==
    IF Raised(r.exc)
    THEN Out(s, ld.cache, ld.fetched,
             preview(in.show, ld.ret) \o except_handler(r.exc, in.dev), k \o r.calls)
    ELSE show_and_store(s, ld, r, k \o r.calls, in, env)

\* after_load without `if not docs:`: an empty load goes on to the client and the chain
after_load_no_empty_check(s, ld, impl, in, env) ==
    LET kGroq == ld.calls \o <<Call("ChatGroq", env.groq, 0)>>
        kLoad == kGroq \o <<Call("load_summarize_chain",
                                 IF impl = "lib" THEN env.resolve ELSE "ok", 0)>>
    IN  IF Raised(ld.exc)
        THEN Out(s, ld.cache, ld.fetched, except_handler(ld.exc, in.dev), ld.calls)
        ELSE IF env.groq = "raise"
        THEN Out(s, ld.cache, ld.fetched,
                 preview(in.show, ld.ret)
                 \o except_handler([type |-> "Exception", detail |-> "client rejected"],
                                   in.dev),
                 kGroq)
        ELSE IF impl = "lib" /\ env.resolve = "raise"
        THEN Out(s, ld.cache, ld.fetched,
                 preview(in.show, ld.ret)
                 \o except_handler([type |-> "Exception", detail |-> "no such chain"],
                                   in.dev),
                 kLoad)
        ELSE summarize(s, ld, run_chain(impl, ld.ret, make_prompt(in.words), env), kLoad,
                       in, env)

\* Lines 137-159: what follows the load, inside the try.
after_load(s, ld, impl, in, env) ==
    LET kGroq == ld.calls \o <<Call("ChatGroq", env.groq, 0)>>
        kLoad == kGroq \o <<Call("load_summarize_chain",
                                 IF impl = "lib" THEN env.resolve ELSE "ok", 0)>>
    IN  IF Raised(ld.exc)
        THEN Out(s, ld.cache, ld.fetched, except_handler(ld.exc, in.dev), ld.calls)
        ELSE IF ~(ld.ret # <<>>)
        THEN Out(s, ld.cache, ld.fetched,
                 <<Msg("error", "No content found.", NoCause, NoText)>>, ld.calls)
        ELSE IF env.groq = "raise"
        THEN Out(s, ld.cache, ld.fetched,
                 preview(in.show, ld.ret)
                 \o except_handler([type |-> "Exception", detail |-> "client rejected"],
                                   in.dev),
                 kGroq)
        ELSE IF impl = "lib" /\ env.resolve = "raise"
        THEN Out(s, ld.cache, ld.fetched,
                 preview(in.show, ld.ret)
                 \o except_handler([type |-> "Exception", detail |-> "no such chain"],
                                   in.dev),
                 kLoad)
        ELSE summarize(s, ld, run_chain(impl, ld.ret, make_prompt(in.words), env), kLoad,
                       in, env)

\* main_submit with the key tested unstripped (`if not groq_api_key:`)
main_submit_unstripped_key(s, c, impl, in, env) ==
    IF ~(in.key # <<>>)
    THEN Out(s, c, "none", <<Msg("error", "Groq API key is required.", NoCause, NoText)>>,
             <<>>)
    ELSE IF ~validators_url(in.url)
    THEN Out(s, c, "none",
             <<Msg("error", "Enter a valid URL including http:// or https://", NoCause,
                   NoText)>>, <<>>)
    ELSE after_load(s, load_url_content(c, in.url, env.net), impl, in, env)

\* The `if submit:` branch.  in: the widgets' values and the number of the submit;
\* env: what each external call does.
main_submit(s, c, impl, in, env) ==
    IF ~(strip(in.key) # <<>>)
    THEN Out(s, c, "none", <<Msg("error", "Groq API key is required.", NoCause, NoText)>>,
             <<>>)
    ELSE IF ~validators_url(in.url)
    THEN Out(s, c, "none",
             <<Msg("error", "Enter a valid URL including http:// or https://", NoCause,
                   NoText)>>, <<>>)
    ELSE after_load(s, load_url_content(c, in.url, env.net), impl, in, env)

-----------------------------------------------------------------------------
(* What the external calls of one submit may do *)

DfltLlm == [res |-> "ok", len |-> 120]
DfltRun == [res |-> "ok", len |-> 200]

AllEnvs == [net : NetOutcomes, groq : Steps, resolve : Steps, inv : LlmOutcomes,
            pred : LlmOutcomes, runkw : LibRunOutcomes, runpos : LibRunOutcomes, dl : Steps]

\* An outcome is listed once: the outcome of a call the submit never reaches is fixed.
Canonical(o, impl) ==
    LET early == o.net \in {NetFail, <<>>}
        built == ~early /\ o.groq = "ok" /\ o.resolve = "ok"
        ran == IF impl = "local" THEN built
               ELSE built /\ (o.runkw.res = "ok"
                              \/ (o.runkw.res \in {"rejected", "TypeError"}
                                  /\ o.runpos.res = "ok"))
    IN  /\ early => o.groq = "ok"
        /\ (early \/ o.groq = "raise" \/ impl = "local") => o.resolve = "ok"
        /\ (impl = "local" \/ ~built) => o.runkw = DfltRun
        /\ (impl = "lib" \/ ~built) => o.inv = DfltLlm
        /\ o.inv.res = "ok" => o.pred = DfltLlm
        /\ o.runkw.res \notin {"rejected", "TypeError"} => o.runpos = DfltRun
        /\ ~ran => o.dl = "ok"

EnvsLocal == {e : e \in {o \in AllEnvs : Canonical(o, "local")}}
EnvsLib == {e : e \in {o \in AllEnvs : Canonical(o, "lib")}}
Envs(impl) == IF impl = "local" THEN EnvsLocal ELSE EnvsLib

DfltEnv == [net |-> <<>>, groq |-> "ok", resolve |-> "ok", inv |-> DfltLlm,
            pred |-> DfltLlm, runkw |-> DfltRun, runpos |-> DfltRun, dl |-> "ok"]
DfltSettings == [words |-> 300, show |-> FALSE, chain_type |-> "stuff"]

\* The widgets' values of a submit.
Input(key, url, dev, set) ==
    [key |-> key, url |-> url, dev |-> dev, words |-> set.words, show |-> set.show,
     chain_type |-> set.chain_type, no |-> 0]

NoForm == Input(<<>>, [scheme |-> "", host |-> ""], FALSE,
                [words |-> 0, show |-> FALSE, chain_type |-> ""])

\* The submits of the model: the widgets' values and what the external calls do.
\* A submit whose key or URL is refused, or whose load brings no document, is listed
\* once: its settings and the outcomes of the calls after it have no effect.
Scenarios(impl) ==
    {sc \in {[in |-> Input(key, url, dev, p[1]), env |-> p[2]] :
                key \in ApiKeys, url \in URLs, dev \in BOOLEAN,
                p \in {q \in Settings \X Envs(impl) :
                         q[2].net \in {NetFail, <<>>} => q[1] = DfltSettings}} :
        (strip(sc.in.key) = <<>> \/ ~validators_url(sc.in.url))
            => (sc.in.words = DfltSettings.words /\ sc.env = DfltEnv)}

ScenariosLocal == {sc : sc \in Scenarios("local")}
ScenariosLib == {sc : sc \in Scenarios("lib")}

-----------------------------------------------------------------------------
(* The script runs *)

Init ==
    /\ session = set_dev_mode(session_clear(<<>>), FALSE)
    /\ form = NoForm
    /\ cache = [u \in ValidURLs |-> NotCached]
    /\ fetchLog = [u \in ValidURLs |-> <<>>]
    /\ msgs = <<>>
    /\ debug = NoDebug
    /\ calls = <<>>
    /\ submitNo = 0
    /\ chainImpl \in {"lib", "local"}

\* The user presses Summarize: the script runs with submit = True.
Submit ==
    /\ submitNo < MaxSubmits
    /\ \E sc \in (IF chainImpl = "local" THEN ScenariosLocal ELSE ScenariosLib) :
       \E r \in {main_submit(set_dev_mode(session, sc.in.dev), cache, chainImpl,
                              [sc.in EXCEPT !.no = submitNo + 1], sc.env)} :
         LET in == [sc.in EXCEPT !.no = submitNo + 1]
         IN  /\ session' = r.session
             /\ form' = in
             /\ cache' = r.cache
             /\ fetchLog' = IF r.fetched = "none" THEN fetchLog
                            ELSE [fetchLog EXCEPT ![in.url] = Append(@, r.fetched)]
             /\ msgs' = r.msgs
             /\ debug' = debug_panel(r.session, in.dev)
             /\ calls' = r.calls
    /\ submitNo' = submitNo + 1
    /\ UNCHANGED chainImpl

\* The user presses Clear session: st.session_state.clear(), then st.rerun() runs the
\* script again with no button pressed.
ClearSession ==
    /\ \E dev \in BOOLEAN :
         /\ session' = set_dev_mode(session_clear(session), dev)
         /\ debug' = debug_panel(set_dev_mode(session_clear(session), dev), dev)
    /\ form' = NoForm
    /\ msgs' = <<>>
    /\ calls' = <<>>
    /\ UNCHANGED <<cache, fetchLog, submitNo, chainImpl>>

\* The user changes a widget (the Dev mode checkbox among them): the script runs with
\* no button pressed.
Rerun ==
    /\ \E dev \in BOOLEAN :
         /\ session' = set_dev_mode(session, dev)
         /\ debug' = debug_panel(set_dev_mode(session, dev), dev)
    /\ msgs' = <<>>
    /\ calls' = <<>>
    /\ form' = NoForm
    /\ UNCHANGED <<cache, fetchLog, submitNo, chainImpl>>

Next == Submit \/ ClearSession \/ Rerun

Spec == Init /\ [][Next]_vars

-----------------------------------------------------------------------------
(* Vocabulary of the properties *)

Submitted(f) == f # NoForm
HasMsg(m, kind, text) == \E i \in DOMAIN m : m[i].kind = kind /\ m[i].msg = text
CallsOf(k, op) == {i \in DOMAIN k : k[i].op = op}
Called(k, op) == CallsOf(k, op) # {}
Written(m) == {i \in DOMAIN m : m[i].kind = "write"}

\* The result the session holds: everything but the dev_mode flag of the current run.
HeldResult(s) == [s EXCEPT !.present = @ \ {"dev_mode"}, !.val.dev_mode = FALSE]

KeyError == <<Msg("error", "Groq API key is required.", NoCause, NoText)>>
UrlError == <<Msg("error", "Enter a valid URL including http:// or https://", NoCause, NoText)>>
NoContent == <<Msg("error", "No content found.", NoCause, NoText)>>

\* The submit's key is empty once stripped, or its URL fails validation.
Refused(f) == strip(f.key) = <<>> \/ ~validators_url(f.url)

-----------------------------------------------------------------------------
(* C1 *)

\* C1: a submit whose access key is empty after stripping, or whose URL fails
\* validation, shows exactly one inline error (the key's if the key is empty, else the
\* URL's), makes no external call at all (no load, no client, no chain), fetches
\* nothing, and leaves the held result and the cache as they were.
C1_RefusedSubmitDoesNothing ==
    [][(Submitted(form') /\ Refused(form'))
         => /\ msgs' = IF strip(form'.key) = <<>> THEN KeyError ELSE UrlError
            /\ calls' = <<>>
            /\ HeldResult(session') = HeldResult(session)
            /\ cache' = cache
            /\ fetchLog' = fetchLog]_vars

\* C1 witness: a result is held and the last submit was refused for a key of blanks.
C1_Witness ==
    /\ Submitted(form) /\ form.key = <<" ">> /\ validators_url(form.url)
    /\ "summary" \in session.present
    /\ msgs = KeyError

-----------------------------------------------------------------------------
(* C2, C3, C9, C10: the run of the chain *)

\* The run of the locally constructed chain in the last script run: invoke raised and
\* predict raised.
BothRaised(k) ==
    /\ \E i \in CallsOf(k, "invoke") : k[i].res = "raise"
    /\ \E i \in CallsOf(k, "predict") : k[i].res = "raise"

\* C2: with the locally constructed chain, when invoke raises and predict raises, the
\* run returns (it does not raise: the keyword call ends "ok" and no positional retry is
\* made) the rendered prompt cut to its first 5000 characters: the text written as the
\* summary comes from the prompt, and its length is the smaller of 5000 and the length
\* of the prompt that was passed to invoke.
C2_LastResortIsTruncatedPrompt ==
    (chainImpl = "local" /\ BothRaised(calls))
      => /\ \A i \in CallsOf(calls, "run_kw") : calls[i].res = "ok"
         /\ ~Called(calls, "run_pos")
         /\ Written(msgs) # {}
         /\ \A i \in Written(msgs) : \A j \in CallsOf(calls, "invoke") :
              /\ msgs[i].src = "prompt"
              /\ msgs[i].len = Min(calls[j].n, TruncLen)
              /\ msgs[i].len <= TruncLen
              /\ msgs[i].len > 0

\* C2 witness: both inference methods raised on a prompt longer than 5000 characters,
\* and the summary shown is 5000 characters of the prompt.
C2_Witness ==
    /\ chainImpl = "local" /\ BothRaised(calls)
    /\ \E j \in CallsOf(calls, "invoke") : calls[j].n > TruncLen
    /\ \E i \in Written(msgs) : msgs[i].src = "prompt" /\ msgs[i].len = TruncLen

\* C3 as claimed, for the locally constructed chain: whenever a submit reports
\* "Summary generated", the summary it writes is not empty.
C3_NeverEmptySummary ==
    (chainImpl = "local" /\ HasMsg(msgs, "success", "Summary generated"))
      => \A i \in Written(msgs) : msgs[i].len > 0

\* C9: in a submit that runs the locally constructed chain, the chain is run once;
\* invoke is called exactly once and first; predict is called at most once, after
\* invoke, and exactly when invoke raised; the text returned is the answer of invoke
\* when invoke succeeded, else the answer of predict when predict succeeded, and the
\* truncated prompt only when both raised.
C9_FallbackOrder ==
    (chainImpl = "local" /\ Called(calls, "run_kw"))
      => LET inv == CallsOf(calls, "invoke")
             pred == CallsOf(calls, "predict")
             run == CallsOf(calls, "run_kw")
         IN  /\ Cardinality(run) = 1 /\ ~Called(calls, "run_pos")
             /\ Cardinality(inv) = 1
             /\ Cardinality(pred) <= 1
             /\ \A i \in inv : \A r \in run : i = r + 1
             /\ \A i \in inv : \A j \in pred : j = i + 1
             /\ \A i \in inv : (calls[i].res = "raise") <=> (pred # {})
             /\ ~Called(calls, "lib_inference")
             /\ \A w \in Written(msgs) :
                  /\ msgs[w].src = "prompt" <=> BothRaised(calls)
                  /\ msgs[w].src \in {"prompt", "llm"}

\* C9 witness: invoke raised, predict answered, and the answer of predict is the summary.
C9_Witness ==
    /\ chainImpl = "local"
    /\ \E i \in CallsOf(calls, "invoke") : calls[i].res = "raise"
    /\ \E j \in CallsOf(calls, "predict") : calls[j].res = "ok"
    /\ \E w \in Written(msgs) : msgs[w].src = "llm" /\ msgs[w].len > 0

\* C10 as claimed: the chain is run at most twice in a submit, and a positional run
\* is made only after the keyword run was rejected for its argument form, never after
\* a keyword run that had begun inference.
C10_RetryOnlyOnRejectedForm ==
    /\ Cardinality(CallsOf(calls, "run_kw")) <= 1
    /\ Cardinality(CallsOf(calls, "run_pos")) <= 1
    /\ Called(calls, "run_pos")
         => \A i \in CallsOf(calls, "run_kw") : calls[i].res = "rejected"

-----------------------------------------------------------------------------
(* C4: the cache of load_url_content *)

\* C4 as claimed: whatever the outcome of the first load of a URL (documents, an empty
\* result or a failure), the URL is fetched over the network at most once.
C4_OneFetchPerUrl ==
    \A u \in ValidURLs : Len(fetchLog[u]) <= 1

\* C4 amended: a load of a URL that returned (documents or an empty result) is the
\* last network fetch of that URL: every earlier fetch of it failed, the cache holds
\* exactly what that fetch returned, and a URL no fetch returned for is not cached.
\* A submit served from the cache fetches nothing and works on the cached documents.
C4_NoFetchAfterAReturnedLoad ==
    /\ \A u \in ValidURLs :
         LET log == fetchLog[u] IN
         /\ \A i \in 1..(Len(log) - 1) : log[i] = "fail"
         /\ (cache[u] # NotCached) <=> (log # <<>> /\ log[Len(log)] \in {"docs", "empty"})
         /\ (cache[u] # NotCached) => ((cache[u] = <<>>) <=> (log[Len(log)] = "empty"))
    /\ \A i \in CallsOf(calls, "load_url_content") :
         calls[i].res = "hit"
           => /\ ~Called(calls, "loader.load")
              /\ calls[i].n = Len(cache[form.url])

\* C4 witness: the second submit of a URL was served from the cache, after the one
\* fetch that returned documents for it.
C4_Witness ==
    /\ Submitted(form) /\ form.no = 2
    /\ form.url \in ValidURLs
    /\ fetchLog[form.url] = <<"docs">>
    /\ \E i \in CallsOf(calls, "load_url_content") : calls[i].res = "hit"
    /\ ~Called(calls, "loader.load")

-----------------------------------------------------------------------------
(* C5: no documents *)

\* The load of the last script run brought no document (from the network or from the
\* cache).
LoadedNothing(k) ==
    \E i \in DOMAIN k :
        \/ k[i].op = "load_url_content" /\ k[i].res = "hit" /\ k[i].n = 0
        \/ k[i].op = "loader.load" /\ k[i].res = "ok" /\ k[i].n = 0

\* C5: a submit whose load returns zero documents shows "No content found." and
\* nothing else, calls nothing after the load (no client, no chain resolved or run, no
\* inference, no download), and leaves the held result as it was.
C5_EmptyLoadStopsTheSubmit ==
    [][(Submitted(form') /\ LoadedNothing(calls'))
         => /\ msgs' = NoContent
            /\ \A i \in DOMAIN calls' : calls'[i].op \in {"load_url_content", "loader.load"}
            /\ HeldResult(session') = HeldResult(session)]_vars

\* C5 witness: a result is held, and the last submit loaded zero documents and said so.
C5_Witness ==
    /\ Submitted(form) /\ LoadedNothing(calls)
    /\ msgs = NoContent
    /\ "summary" \in session.present

-----------------------------------------------------------------------------
(* C6, C7: failures *)

\* An external call of the script run raised and nothing inside the chain caught it:
\* the load, the client, the resolution of the chain, the download; a keyword run that
\* raised something other than a TypeError; a positional run that raised anything.
FailedCall(k) ==
    \E i \in DOMAIN k :
        \/ /\ k[i].op \in {"loader.load", "ChatGroq", "load_summarize_chain",
                           "download_button"}
           /\ k[i].res = "raise"
        \/ k[i].op = "run_kw" /\ k[i].res = "raise"
        \/ k[i].op = "run_pos" /\ k[i].res # "ok"

\* The except handler of the submit ran: it showed "Error: ...".
ErrorShown(m) == HasMsg(m, "error", "Error: {e}")

\* The session holds the whole result of submit number no, whose summary is text.
HoldsResultOf(s, no, text) ==
    /\ ResultKeys \subseteq s.present
    /\ \A k \in ResultKeys : s.stamp[k] = no
    /\ s.val.summary = text

\* C6 as claimed: after a submit that failed at any step (download preparation
\* included), the held session state equals what it was before that submit.
C6_FailedSubmitLeavesSession ==
    [][(Submitted(form') /\ ErrorShown(msgs'))
         => HeldResult(session') = HeldResult(session)]_vars

\* C6 amended: a failure at any step of a submit is caught and shown as an error, and
\* no other submit shows one; when the failure came before the summary was stored
\* (load, client, resolution, run), the held session state equals what it was before
\* the submit; when it came after (download preparation), the summary had been shown
\* and the session holds the whole result of that submit; and the submit that follows a
\* failed one, if it is accepted, loads documents and none of its calls fails, shows
\* and stores its summary.
C6_FailuresAreCaught ==
    [][Submitted(form')
         => /\ FailedCall(calls') <=> ErrorShown(msgs')
            /\ (ErrorShown(msgs') /\ ~Called(calls', "download_button"))
                 => HeldResult(session') = HeldResult(session)
            /\ (ErrorShown(msgs') /\ Called(calls', "download_button"))
                 => /\ HasMsg(msgs', "success", "Summary generated")
                    /\ \A w \in Written(msgs') :
                         HoldsResultOf(session', form'.no,
                                       [src |-> msgs'[w].src, len |-> msgs'[w].len])
            /\ (ErrorShown(msgs) /\ ~Refused(form') /\ ~LoadedNothing(calls')
                /\ ~FailedCall(calls'))
                 => /\ HasMsg(msgs', "success", "Summary generated")
                    /\ HasMsg(msgs', "download_button", "summary.txt")
                    /\ \A w \in Written(msgs') :
                         HoldsResultOf(session', form'.no,
                                       [src |-> msgs'[w].src, len |-> msgs'[w].len])]_vars

\* C6 witness: the run of the chain failed in the second submit, the error was shown,
\* and the session still holds the result of the first submit.
C6_Witness ==
    /\ Submitted(form) /\ form.no = 2
    /\ ErrorShown(msgs)
    /\ \E i \in DOMAIN calls : calls[i].op \in {"run_kw", "run_pos"} /\ calls[i].res = "raise"
    /\ "summary" \in session.present /\ session.stamp["summary"] = 1

\* C7 as claimed: while debug mode is off, nothing displayed carries the cause of a
\* failure.
C7_CauseOnlyInDebugView ==
    ~session.val.dev_mode => \A i \in DOMAIN msgs : msgs[i].cause = NoCause

-----------------------------------------------------------------------------
(* C8: the held result *)

\* Whenever a summary is held, every result key is held and was stored by the submit
\* that stored the summary; the debug panel is shown exactly when debug mode is on and
\* a summary is held, and shows the held values.
HeldResultIsWhole ==
    /\ "summary" \in session.present
         => /\ ResultKeys \subseteq session.present
            /\ \A k \in ResultKeys : session.stamp[k] = session.stamp["summary"]
            /\ session.stamp["summary"] \in 1..submitNo
    /\ debug.shown <=> (session.val.dev_mode /\ "summary" \in session.present)
    /\ debug.shown
         => /\ debug.model = session.val.model /\ debug.model = ModelName
            /\ debug.chain_type = session.val.chain_type
            /\ debug.documents = Len(session.val.docs)
            /\ debug.summary_chars = session.val.summary.len
            /\ debug.template_len = session.val.prompt.template_len

====
